---- MODULE Spec2Model ----
(***************************************************************************)
(* Model of csvToMysql_gpt4o.py: column-type inference over a sample of a  *)
(* CSV file (infer_column_types, is_datetime) and the bulk loader that     *)
(* drops/creates the target table and loads every candidate file.          *)
(*                                                                         *)
(* Values are TLA+ strings, read character by character, so int(), float() *)
(* and strptime() are modelled by what they accept.                        *)
(*                                                                         *)
(* Also the pass of duplicateMessageCheck.py over the rows of its          *)
(* duplicates query (flush_block, _update_partners_for_block).             *)
(***************************************************************************)
EXTENDS Integers, Sequences, FiniteSets, TLC

(***************************************************************************)
(* Strings                                                                 *)
(***************************************************************************)
Ch(s, i) == SubSeq(s, i, i)

Digits == {"0", "1", "2", "3", "4", "5", "6", "7", "8", "9"}

Whitespace == {" ", "\t", "\n", "\r"}

DigitVal(c) == CHOOSE d \in 0..9 : ToString(d) = c

IsEmpty(s) == Len(s) = 0

Contains(s, c) == \E i \in 1..Len(s) : Ch(s, i) = c

EndsWith(s, suffix) ==
    /\ Len(s) >= Len(suffix)
    /\ SubSeq(s, Len(s) - Len(suffix) + 1, Len(s)) = suffix

StartsWith(s, prefix) ==
    /\ Len(s) >= Len(prefix)
    /\ SubSeq(s, 1, Len(prefix)) = prefix

RECURSIVE Rep(_, _)
Rep(c, n) ==
    IF n = 0 THEN ""
    ELSE LET half == Rep(c, n \div 2)
         IN  half \o half \o (IF n % 2 = 1 THEN c ELSE "")

RECURSIVE LStrip(_)
LStrip(s) == IF Len(s) > 0 /\ Ch(s, 1) \in Whitespace THEN LStrip(Tail(s)) ELSE s

RECURSIVE RStrip(_)
RStrip(s) ==
    IF Len(s) > 0 /\ Ch(s, Len(s)) \in Whitespace
    THEN RStrip(SubSeq(s, 1, Len(s) - 1)) ELSE s

Strip(s) == RStrip(LStrip(s))

Unsigned(s) == IF Len(s) > 0 /\ Ch(s, 1) \in {"+", "-"} THEN Tail(s) ELSE s

Lower(c) ==
    CASE c = "I" -> "i" [] c = "N" -> "n" [] c = "F" -> "f" [] c = "T" -> "t"
      [] c = "Y" -> "y" [] c = "A" -> "a" [] OTHER -> c

RECURSIVE LowerStr(_)
LowerStr(s) == IF Len(s) = 0 THEN "" ELSE Lower(Ch(s, 1)) \o LowerStr(Tail(s))

\* Position just after the longest digit group starting at i: digits with
\* single underscores between them (PEP 515); i itself when there is none.
RECURSIVE DigitRunEnd(_, _)
DigitRunEnd(s, i) ==
    IF i > Len(s) \/ Ch(s, i) \notin Digits THEN i
    ELSE IF i + 2 <= Len(s) /\ Ch(s, i + 1) = "_" /\ Ch(s, i + 2) \in Digits
         THEN DigitRunEnd(s, i + 2)
         ELSE DigitRunEnd(s, i + 1)

\* int(value) succeeds: optional surrounding whitespace, optional sign, one
\* digit group.
IsInt(value) ==
    LET body == Unsigned(Strip(value))
    IN  Len(body) > 0 /\ DigitRunEnd(body, 1) = Len(body) + 1

RECURSIVE DigitsVal(_, _)
DigitsVal(s, acc) ==
    IF Len(s) = 0 THEN acc
    ELSE IF Ch(s, 1) = "_" THEN DigitsVal(Tail(s), acc)
    ELSE DigitsVal(Tail(s), 10 * acc + DigitVal(Ch(s, 1)))

\* int(value), for a value IsInt accepts.
IntVal(value) ==
    LET t == Strip(value)
        magnitude == DigitsVal(Unsigned(t), 0)
    IN  IF Ch(t, 1) = "-" THEN 0 - magnitude ELSE magnitude

\* float(value) succeeds: whitespace, sign, then inf / infinity / nan or a
\* decimal literal with optional fraction and exponent.
IsFloat(value) ==
    LET body == Unsigned(Strip(value))
        n    == Len(body)
        a    == DigitRunEnd(body, 1)
        dot  == a <= n /\ Ch(body, a) = "."
        b    == IF dot THEN DigitRunEnd(body, a + 1) ELSE a
        mantissaOk == IF dot THEN (a > 1 \/ b > a + 1) ELSE a > 1
        expSign == b + 1 <= n /\ Ch(body, b + 1) \in {"+", "-"}
        e    == IF expSign THEN b + 2 ELSE b + 1
        expOk == /\ Ch(body, b) \in {"e", "E"}
                 /\ e <= n
                 /\ DigitRunEnd(body, e) = n + 1
    IN  \/ n <= 8 /\ LowerStr(body) \in {"inf", "infinity", "nan"}
        \/ /\ mantissaOk
           /\ (b = n + 1 \/ expOk)

(***************************************************************************)
(* datetime.datetime.strptime                                              *)
(***************************************************************************)
IsLeap(y) == (y % 4 = 0 /\ y % 100 # 0) \/ y % 400 = 0

DaysInMonth(y, m) ==
    IF m = 2 THEN (IF IsLeap(y) THEN 29 ELSE 28)
    ELSE IF m \in {4, 6, 9, 11} THEN 30 ELSE 31

AllDigits(s) == \A i \in 1..Len(s) : Ch(s, i) \in Digits

\* Upper value of a one- or two-digit directive; the lower value is 1 for
\* month and day and 0 for hour, minute and second.  %S accepts 60 and 61 in
\* the pattern but datetime() rejects them.
FieldMax(d) ==
    CASE d = "m" -> 12 [] d = "d" -> 31 [] d = "H" -> 23 [] d = "M" -> 59
      [] d = "S" -> 59
FieldMin(d) == IF d \in {"m", "d"} THEN 1 ELSE 0

FieldOk(d, txt) ==
    /\ AllDigits(txt)
    /\ DigitsVal(txt, 0) >= FieldMin(d)
    /\ DigitsVal(txt, 0) <= FieldMax(d)

Put(date, d, v) == IF d \in {"Y", "m", "d"} THEN [date EXCEPT ![d] = v] ELSE date

\* value[i..] matches fmt[k..] and the date it spells exists.
RECURSIVE MatchFmt(_, _, _, _, _)
MatchFmt(value, i, fmt, k, date) ==
    IF k > Len(fmt)
    THEN /\ i = Len(value) + 1
         /\ date.Y >= 1
         /\ date.d <= DaysInMonth(date.Y, date.m)
    ELSE LET d == fmt[k]
             take(w) == SubSeq(value, i, i + w - 1)
         IN  CASE d = "Y" ->
                    /\ i + 3 <= Len(value)
                    /\ AllDigits(take(4))
                    /\ MatchFmt(value, i + 4, fmt, k + 1,
                                Put(date, d, DigitsVal(take(4), 0)))
               [] d = " " ->
                    \E w \in 1..(Len(value) - i + 1) :
                       /\ \A j \in i..(i + w - 1) : Ch(value, j) \in Whitespace
                       /\ MatchFmt(value, i + w, fmt, k + 1, date)
               [] d \in {"-", "/", ":"} ->
                    /\ i <= Len(value)
                    /\ Ch(value, i) = d
                    /\ MatchFmt(value, i + 1, fmt, k + 1, date)
               [] OTHER ->
                    \/ \E w \in 1..2 :
                          /\ i + w - 1 <= Len(value)
                          /\ FieldOk(d, take(w))
                          /\ MatchFmt(value, i + w, fmt, k + 1,
                                      Put(date, d, DigitsVal(take(w), 0)))
                    \/ /\ d = "d"
                       /\ i + 1 <= Len(value)
                       /\ Ch(value, i) = " "
                       /\ Ch(value, i + 1) \in (Digits \ {"0"})
                       /\ MatchFmt(value, i + 2, fmt, k + 1,
                                   Put(date, d, DigitVal(Ch(value, i + 1))))

Strptime(value, fmt) == MatchFmt(value, 1, fmt, 1, [Y |-> 1900, m |-> 1, d |-> 1])

\* '%Y-%m-%d %H:%M:%S', '%Y-%m-%d', '%d/%m/%Y', '%Y/%m/%d'
DateFormats ==
    << <<"Y", "-", "m", "-", "d", " ", "H", ":", "M", ":", "S">>,
       <<"Y", "-", "m", "-", "d">>,
       <<"d", "/", "m", "/", "Y">>,
       <<"Y", "/", "m", "/", "d">> >>

is_datetime(value) == \E f \in 1..Len(DateFormats) : Strptime(value, DateFormats[f])

(***************************************************************************)
(* infer_column_types: the per-value and per-row steps                     *)
(***************************************************************************)
None == "None"

\* Rows sampled before the scan stops (row_count > 1000).
SAMPLE_ROWS == 1000

Max(a, b) == IF a >= b THEN a ELSE b

\* IntBranch that never takes INT back to TINYINT.
IntBranch_NoDowngrade(type, int_val) ==
    IF type \notin {"DOUBLE", "VARCHAR", "TEXT", "DATETIME", "DATE"}
    THEN (IF int_val < 10 /\ type # "INT" THEN "TINYINT" ELSE "INT")
    ELSE type

\* IntBranch without the guard of line 72.
IntBranch_Unguarded(type, int_val) ==
    IF int_val < 10 THEN "TINYINT" ELSE "INT"

\* Lines 70-76: a value int() accepts.
IntBranch(type, int_val) ==
    IF type \notin {"DOUBLE", "VARCHAR", "TEXT", "DATETIME", "DATE"}
    THEN (IF int_val < 10 THEN "TINYINT" ELSE "INT")
    ELSE type

\* Lines 78-80: a value float() accepts.
FloatBranch(type) == "DOUBLE"

\* Lines 82-83: a value is_datetime accepts.
DateBranch(type, value) == IF Contains(value, " ") THEN "DATETIME" ELSE "DATE"

\* Lines 85-87: free text; max_len is the already updated max_lengths[i].
TextBranch(type, max_len) ==
    IF type \notin {"TEXT"}
    THEN (IF max_len < 200 THEN "VARCHAR" ELSE "TEXT")
    ELSE type

\* Lines 67-87: the body of the inner loop for one value of column i.
UpdateCell(cell, value) ==
    IF IsEmpty(value) THEN cell
    ELSE IF IsInt(value)
         THEN [cell EXCEPT !.type = IntBranch(cell.type, IntVal(value))]
    ELSE IF IsFloat(value)
         THEN [cell EXCEPT !.type = FloatBranch(cell.type)]
    ELSE IF is_datetime(value)
         THEN [cell EXCEPT !.type = DateBranch(cell.type, value)]
    ELSE LET longest == Max(cell.len, Len(value))
         IN  [type |-> TextBranch(cell.type, longest), len |-> longest]

\* data_types[i] raises IndexError for a non-empty value past the header's
\* last column; an empty one is skipped before the lookup.
RowRaises(ncols, row) ==
    \E i \in 1..Len(row) : i > ncols /\ ~IsEmpty(row[i])

\* Lines 66-87 for one row: every column the row has a value for.
ProcessRow(types, lens, row) ==
    [i \in 1..Len(types) |->
        IF i <= Len(row)
        THEN UpdateCell([type |-> types[i], len |-> lens[i]], row[i])
        ELSE [type |-> types[i], len |-> lens[i]]]

\* The backtick that quotes a column name, written as an apostrophe: a TLA+
\* string cannot hold a backtick.
BQ == "'"

\* ColumnDefinition testing the suffix "id" instead of "_id".
ColumnDefinition_IdSuffix(header, type, max_len) ==
    LET col_type  == IF type # None THEN type ELSE "VARCHAR(255)"
        sized     == IF col_type = "VARCHAR"
                     THEN col_type \o "(" \o ToString(max_len) \o ")"
                     ELSE col_type
        indexed   == IF EndsWith(header, "id") THEN sized \o " INDEX" ELSE sized
    IN  BQ \o header \o BQ \o " " \o indexed

\* Lines 95-100: one column definition.
ColumnDefinition(header, type, max_len) ==
    LET col_type  == IF type # None THEN type ELSE "VARCHAR(255)"
        sized     == IF col_type = "VARCHAR"
                     THEN col_type \o "(" \o ToString(max_len) \o ")"
                     ELSE col_type
        indexed   == IF EndsWith(header, "_id") THEN sized \o " INDEX" ELSE sized
    IN  BQ \o header \o BQ \o " " \o indexed

\* ", ".join(column_definitions)
RECURSIVE Join(_)
Join(defs) ==
    IF Len(defs) = 0 THEN ""
    ELSE IF Len(defs) = 1 THEN defs[1]
    ELSE defs[1] \o ", " \o Join(Tail(defs))

(***************************************************************************)
(* State                                                                   *)
(***************************************************************************)
VARIABLES
    \* the process
    pc,                 \* position of the script
    filename,           \* sys.argv[1]
    ignore_lines,       \* sys.argv[4], 0 when absent
    files,              \* candidate file set, in listing order
    db,                 \* connection: "none", "open", "committed"
    append,
    stdin_line,         \* what readline() returned at the prompt
    load_i,             \* files loaded so far by the import loop
    exit_status,        \* -1 while running
    \* the environment
    fs,                 \* path -> file (rows of fields) or directory (listing)
    table,              \* the target table in the database
    statements,         \* statements this run has executed, in order
    table0,             \* the target table when this run started
    runs,               \* invocations started so far
    \* infer_column_types(file_path)
    ipc,                \* "idle", "open", "scan", "break", "returned", "raised"
    file_path,
    reader,             \* lines of the file consumed so far
    headers,
    data_types,
    max_lengths,
    row_count,
    column_definitions,
    column_description, \* the returned clause
    \* duplicateMessageCheck.main, a separate program
    dpc,                \* "idle", "query", "rows", "report", "exited"
    dexit,              \* its exit status, -1 while it runs
    limit_groups,
    excerpt_length,
    result_rows,        \* what the duplicates query returns, in order
    fetched,            \* rows the loop has taken from the cursor
    total_dupe_groups,
    total_rows_listed,
    distinct_groups_global,
    groups_per_duplicate,
    lengths_per_duplicate,
    group_partners,     \* <<a, b>> -> [count, max_len], for the keys present
    current_md5,
    current_excerpt,
    current_length,
    current_items,
    current_groups,
    printed             \* duplicate blocks written to standard output

procVars  == <<pc, filename, ignore_lines, files, db, append, stdin_line,
               load_i, exit_status>>
envVars   == <<fs, table, statements, table0, runs>>
inferVars == <<ipc, file_path, reader, headers, data_types, max_lengths,
               row_count, column_definitions, column_description>>
statVars  == <<total_dupe_groups, total_rows_listed, distinct_groups_global,
               groups_per_duplicate, lengths_per_duplicate, group_partners>>
blockVars == <<current_md5, current_excerpt, current_length, current_items,
               current_groups>>
dupVars   == <<dpc, dexit, limit_groups, excerpt_length, result_rows, fetched,
               statVars, blockVars, printed>>
vars      == <<procVars, envVars, inferVars, dupVars>>

(***************************************************************************)
(* Inputs: bounds, sample values, files and directories                    *)
(***************************************************************************)
MaxRows   == 3      \* data rows of a generated one-column file
MaxRagged == 2      \* data rows of a generated ragged file
MaxFiles  == 3      \* regular files in the input directory
MaxIgnore == 1      \* largest IGNORE_LINES argument
MaxRuns   == 2      \* invocations against the same table

\* Line 17.
DISABLE_KEYS == TRUE

\* os.path.join
PathJoin(dir, f) == dir \o "/" \o f

SeqsUpTo(S, n) == UNION {[1..k -> S] : k \in 0..n}

\* Injective sequences over S: the orders a directory listing can come in.
RECURSIVE Orderings(_)
Orderings(S) ==
    IF S = {} THEN {<<>>}
    ELSE UNION {{<<e>> \o rest : rest \in Orderings(S \ {e})} : e \in S}

Text199 == Rep("x", 199)
Text200 == Rep("x", 200)

\* One value of every kind the scan tells apart.
Values ==
    {"", "5", "100", "-100", "9.5", "2020-01-01", "2020-02-01 10:00:00",
     "Alice", Text199, Text200}

ScenarioFile ==
    << <<"id", "name", "score", "joined">>,
       <<"1", "Alice", "9.5", "2020-01-01">>,
       <<"2", "Bob", "10", "2020-02-01 10:00:00">> >>

OneColumnFiles ==
    {<<h>> \o rows : h \in {<<"user_id">>, <<"name">>},
                     rows \in SeqsUpTo({<<v>> : v \in Values}, MaxRows)}

\* Rows shorter and longer than the two-column header.
RaggedFiles ==
    {<< <<"x_id", "id">> >> \o rows :
        rows \in SeqsUpTo(SeqsUpTo({"", "x"}, 3), MaxRagged)}

\* n data rows: "1" in every row but the last, which holds w.
LongFile(n, w) ==
    [i \in 1..(n + 1) |->
        IF i = 1 THEN <<"n_id">> ELSE IF i = n + 1 THEN <<w>> ELSE <<"1">>]

LongFiles ==
    {LongFile(n, w) : n \in SAMPLE_ROWS..(SAMPLE_ROWS + 2), w \in {"abc", "2.5", "100"}}

\* The empty file has no header row.
SampleFiles ==
    {<<>>, ScenarioFile} \cup OneColumnFiles \cup RaggedFiles \cup LongFiles

File(rows)   == [kind |-> "file", rows |-> rows, listing |-> <<>>]
Dir(listing) == [kind |-> "dir", rows |-> <<>>, listing |-> listing]

\* Files the loader is pointed at: f1.csv, f2.csv, ... and what they hold.
FileName(k) == "f" \o ToString(k) \o ".csv"

LoaderFiles ==
    << ScenarioFile,
       << <<"user_id", "note">>, <<"7", "x">>, <<"8", "y", "extra">> >>,
       <<>> >>

FileContent(k) == LoaderFiles[((k - 1) % Len(LoaderFiles)) + 1]

\* A directory "data" whose listing is `listing`; "sub" is a subdirectory.
DirectoryFs(listing) ==
    LET names == {listing[i] : i \in 1..Len(listing)}
        paths == {"data"} \cup {PathJoin("data", e) : e \in names}
    IN  [p \in paths |->
            IF p = "data" THEN Dir(listing)
            ELSE IF p = PathJoin("data", "sub") THEN Dir(<<>>)
            ELSE File(FileContent(
                    CHOOSE k \in 1..MaxFiles : p = PathJoin("data", FileName(k))))]

Listings ==
    UNION {Orderings(E) : E \in SUBSET ({FileName(k) : k \in 1..MaxFiles} \cup {"sub"})}

SingleFileFs(rows) == [p \in {"in.csv"} |-> File(rows)]

\* What readline() can return at the prompt; "" is end of input.
AnswerLines ==
    {"y\n", "Y\n", "a\n", "A\n", "n\n", "no\n", "\n", "", "abort\n"}

NoTable == [exists |-> FALSE, columns |-> "", rows |-> <<>>, keys |-> TRUE]

\* A table left by an earlier load.
OldTable ==
    [exists |-> TRUE, columns |-> "'old_id' INT INDEX, 'txt' TEXT",
     rows |-> <<[file |-> "old.csv", ignore |-> 1]>>, keys |-> TRUE]

(***************************************************************************)
(* infer_column_types as steps                                             *)
(***************************************************************************)
csvfile == fs[file_path].rows

\* Lines 58-63: open the file and read the header row.  open() raises on a
\* file that cannot be read, next(reader) raises StopIteration on a file
\* without a header row.
ReadHeaders ==
    /\ ipc = "open"
    /\ \E readable \in BOOLEAN :
       IF ~readable \/ Len(csvfile) = 0
       THEN /\ ipc' = "raised"
            /\ pc' = "raised"
            /\ exit_status' = 1
            /\ UNCHANGED <<reader, headers, data_types, max_lengths, row_count>>
       ELSE /\ reader' = 1
            /\ headers' = csvfile[1]
            /\ data_types' = [i \in 1..Len(csvfile[1]) |-> None]
            /\ max_lengths' = [i \in 1..Len(csvfile[1]) |-> 0]
            /\ row_count' = 0
            /\ ipc' = "scan"
            /\ UNCHANGED <<pc, exit_status>>
    /\ UNCHANGED <<file_path, column_definitions, column_description>>
    /\ UNCHANGED <<filename, ignore_lines, files, db, append, stdin_line, load_i>>
    /\ UNCHANGED envVars
    /\ UNCHANGED dupVars

\* Lines 65-91: one iteration of the outer loop.
ScanRow ==
    /\ ipc = "scan"
    /\ reader < Len(csvfile)
    /\ LET row   == csvfile[reader + 1]
           cells == ProcessRow(data_types, max_lengths, row)
       IN  /\ reader' = reader + 1
           /\ IF RowRaises(Len(headers), row)
              THEN /\ ipc' = "raised"
                   /\ pc' = "raised"
                   /\ exit_status' = 1
                   /\ UNCHANGED <<data_types, max_lengths, row_count>>
              ELSE /\ data_types' = [i \in 1..Len(cells) |-> cells[i].type]
                   /\ max_lengths' = [i \in 1..Len(cells) |-> cells[i].len]
                   /\ row_count' = row_count + 1
                   /\ ipc' = IF row_count + 1 > SAMPLE_ROWS THEN "break" ELSE "scan"
                   /\ UNCHANGED <<pc, exit_status>>
    /\ UNCHANGED <<file_path, headers, column_definitions, column_description>>
    /\ UNCHANGED <<filename, ignore_lines, files, db, append, stdin_line, load_i>>
    /\ UNCHANGED envVars
    /\ UNCHANGED dupVars

\* Lines 93-101, once the loop has ended (file exhausted or break).
ResolveTypes ==
    /\ \/ ipc = "break"
       \/ ipc = "scan" /\ reader = Len(csvfile)
    /\ LET defs == [i \in 1..Len(headers) |->
                      ColumnDefinition(headers[i], data_types[i], max_lengths[i])]
       IN  /\ column_definitions' = defs
           /\ column_description' = Join(defs)
    /\ ipc' = "returned"
    /\ UNCHANGED <<file_path, reader, headers, data_types, max_lengths, row_count>>
    /\ UNCHANGED <<procVars, envVars>>
    /\ UNCHANGED dupVars

(***************************************************************************)
(* The bulk loader, lines 26-148                                           *)
(***************************************************************************)
Exited == {"done", "aborted", "raised"}

Stmt(op) == [op |-> op, file |-> "", ignore |-> 0]
LoadStmt(f, n) == [op |-> "LOAD", file |-> f, ignore |-> n]

IsFile(path) == path \in DOMAIN fs /\ fs[path].kind = "file"
IsDir(path)  == path \in DOMAIN fs /\ fs[path].kind = "dir"

\* SelectFiles without the os.path.isfile filter.
SelectFiles_NoFilter(dir, listing) ==
    [i \in 1..Len(listing) |-> PathJoin(dir, listing[i])]

\* Line 36: the regular files of the listing, in listing order.
RECURSIVE SelectFiles(_, _)
SelectFiles(dir, listing) ==
    IF Len(listing) = 0 THEN <<>>
    ELSE IF IsFile(PathJoin(dir, Head(listing)))
         THEN <<PathJoin(dir, Head(listing))>> \o SelectFiles(dir, Tail(listing))
         ELSE SelectFiles(dir, Tail(listing))

\* Lines 31-36: the candidate file set.
CollectFiles ==
    /\ pc = "start"
    /\ files' = IF IsDir(filename)
                THEN SelectFiles(filename, fs[filename].listing)
                ELSE <<filename>>
    /\ pc' = "connect"
    /\ UNCHANGED <<filename, ignore_lines, db, append, stdin_line, load_i, exit_status>>
    /\ UNCHANGED <<envVars, inferVars>>
    /\ UNCHANGED dupVars

\* Lines 39-40: MySQLdb.connect either returns a connection or raises.
Connect ==
    /\ pc = "connect"
    /\ \E ok \in BOOLEAN :
          IF ok
          THEN /\ db' = "open"
               /\ pc' = "check"
               /\ UNCHANGED exit_status
          ELSE /\ pc' = "raised"
               /\ exit_status' = 1
               /\ UNCHANGED db
    /\ UNCHANGED <<filename, ignore_lines, files, append, stdin_line, load_i>>
    /\ UNCHANGED <<envVars, inferVars>>
    /\ UNCHANGED dupVars

\* PromptOutcome that exits only on an explicit n.
PromptOutcome_ExitOnN(line) ==
    IF Len(line) = 0 THEN "raise"
    ELSE LET answer == Ch(line, 1)
         IN  IF Lower(answer) = "a" THEN "append"
             ELSE IF answer \in {"n", "N"} THEN "exit"
             ELSE "overwrite"

\* Lines 49-54: what the line read at the prompt decides.  readline()[0]
\* raises IndexError on end of input.
PromptOutcome(line) ==
    IF Len(line) = 0 THEN "raise"
    ELSE LET answer == Ch(line, 1)
         IN  IF Lower(answer) = "a" THEN "append"
             ELSE IF Lower(answer) # "y" THEN "exit"
             ELSE "overwrite"

\* CreateOrAppend ignoring the append flag.
CreateOrAppend_AlwaysCreate(app) == "drop"

\* Lines 114 and 121: where the script goes once the prompt is over.
CreateOrAppend(app) == IF ~app THEN "drop" ELSE "disable"

\* Lines 43-54: SHOW TABLES and, when the table exists, the prompt.
CheckTable ==
    /\ pc = "check"
    /\ statements' = Append(statements, Stmt("SHOW TABLES"))
    /\ IF ~table.exists
       THEN /\ pc' = CreateOrAppend(append)
            /\ UNCHANGED <<append, stdin_line, exit_status>>
       ELSE \E line \in AnswerLines :
               /\ stdin_line' = line
               /\ LET outcome == PromptOutcome(line)
                  IN  CASE outcome = "raise" ->
                             /\ pc' = "raised"
                             /\ exit_status' = 1
                             /\ UNCHANGED append
                        [] outcome = "exit" ->
                             /\ pc' = "aborted"
                             /\ exit_status' = 1
                             /\ UNCHANGED append
                        [] outcome = "append" ->
                             /\ append' = TRUE
                             /\ pc' = CreateOrAppend(TRUE)
                             /\ UNCHANGED exit_status
                        [] outcome = "overwrite" ->
                             /\ pc' = CreateOrAppend(append)
                             /\ UNCHANGED <<append, exit_status>>
    /\ UNCHANGED <<filename, ignore_lines, files, db, load_i>>
    /\ UNCHANGED <<fs, table, table0, runs>>
    /\ UNCHANGED inferVars
    /\ UNCHANGED dupVars

\* A statement that raises ends the script with a traceback.
Raise ==
    /\ pc' = "raised"
    /\ exit_status' = 1

\* DropTable leaving the drop for after the schema is inferred.
DropTable_AfterInfer ==
    /\ pc = "drop"
    /\ pc' = "infer"
    /\ UNCHANGED <<filename, ignore_lines, files, db, append, stdin_line, load_i,
                   exit_status>>
    /\ UNCHANGED <<envVars, inferVars>>
    /\ UNCHANGED dupVars

\* Line 115.
DropTable ==
    /\ pc = "drop"
    /\ statements' = Append(statements, Stmt("DROP TABLE"))
    /\ \E ok \in BOOLEAN :
          IF ok
          THEN /\ table' = NoTable
               /\ pc' = "infer"
               /\ UNCHANGED exit_status
          ELSE /\ Raise
               /\ UNCHANGED table
    /\ UNCHANGED <<filename, ignore_lines, files, db, append, stdin_line, load_i>>
    /\ UNCHANGED <<fs, table0, runs>>
    /\ UNCHANGED inferVars
    /\ UNCHANGED dupVars

\* Line 117: files[0] raises IndexError when the candidate set is empty.
CallInfer ==
    /\ pc = "infer"
    /\ ipc = "idle"
    /\ IF Len(files) = 0
       THEN /\ Raise
            /\ ipc' = "raised"
            /\ UNCHANGED file_path
       ELSE /\ file_path' = files[1]
            /\ ipc' = "open"
            /\ UNCHANGED <<pc, exit_status>>
    /\ UNCHANGED <<filename, ignore_lines, files, db, append, stdin_line, load_i>>
    /\ UNCHANGED envVars
    /\ UNCHANGED <<reader, headers, data_types, max_lengths, row_count,
                   column_definitions, column_description>>
    /\ UNCHANGED dupVars

\* Lines 118-120.
CreateTable ==
    /\ pc = "infer"
    /\ ipc = "returned"
    /\ statements' = Append(statements, Stmt("CREATE TABLE"))
    /\ \E ok \in BOOLEAN :
          IF ok /\ ~table.exists
          THEN /\ table' = [exists |-> TRUE, columns |-> column_description,
                            rows |-> <<>>, keys |-> TRUE]
               /\ pc' = "disable"
               /\ UNCHANGED exit_status
          ELSE /\ Raise
               /\ UNCHANGED table
    /\ UNCHANGED <<filename, ignore_lines, files, db, append, stdin_line, load_i>>
    /\ UNCHANGED <<fs, table0, runs>>
    /\ UNCHANGED inferVars
    /\ UNCHANGED dupVars

\* Lines 125-127.
DisableKeys ==
    /\ pc = "disable"
    /\ IF DISABLE_KEYS
       THEN /\ statements' = Append(statements, Stmt("DISABLE KEYS"))
            /\ \E ok \in BOOLEAN :
                  IF ok /\ table.exists
                  THEN /\ table' = [table EXCEPT !.keys = FALSE]
                       /\ pc' = "load"
                       /\ UNCHANGED exit_status
                  ELSE /\ Raise
                       /\ UNCHANGED table
       ELSE /\ pc' = "load"
            /\ UNCHANGED <<statements, table, exit_status>>
    /\ UNCHANGED <<filename, ignore_lines, files, db, append, stdin_line, load_i>>
    /\ UNCHANGED <<fs, table0, runs>>
    /\ UNCHANGED inferVars
    /\ UNCHANGED dupVars

\* LoadFile with the failed load caught and the loop continued.
LoadFile_SkipFailed ==
    /\ pc = "load"
    /\ load_i < Len(files)
    /\ LET f == files[load_i + 1]
       IN  /\ statements' = Append(statements, LoadStmt(f, ignore_lines))
           /\ load_i' = load_i + 1
           /\ \E ok \in BOOLEAN :
                 IF ok /\ table.exists
                 THEN table' = [table EXCEPT
                                  !.rows = Append(@, [file |-> f, ignore |-> ignore_lines])]
                 ELSE UNCHANGED table
    /\ UNCHANGED <<pc, exit_status, filename, ignore_lines, files, db, append, stdin_line>>
    /\ UNCHANGED <<fs, table0, runs>>
    /\ UNCHANGED inferVars
    /\ UNCHANGED dupVars

\* Lines 130-137: one iteration of the import loop.
LoadFile ==
    /\ pc = "load"
    /\ load_i < Len(files)
    /\ LET f == files[load_i + 1]
       IN  /\ statements' = Append(statements, LoadStmt(f, ignore_lines))
           /\ \E ok \in BOOLEAN :
                 IF ok /\ table.exists
                 THEN /\ table' = [table EXCEPT
                                     !.rows = Append(@, [file |-> f, ignore |-> ignore_lines])]
                      /\ load_i' = load_i + 1
                      /\ UNCHANGED <<pc, exit_status>>
                 ELSE /\ Raise
                      /\ UNCHANGED <<table, load_i>>
    /\ UNCHANGED <<filename, ignore_lines, files, db, append, stdin_line>>
    /\ UNCHANGED <<fs, table0, runs>>
    /\ UNCHANGED inferVars
    /\ UNCHANGED dupVars

\* Lines 139-144, after the last file.
EnableKeys ==
    /\ pc = "load"
    /\ load_i = Len(files)
    /\ IF DISABLE_KEYS
       THEN /\ statements' = Append(statements, Stmt("ENABLE KEYS"))
            /\ \E ok \in BOOLEAN :
                  IF ok /\ table.exists
                  THEN /\ table' = [table EXCEPT !.keys = TRUE]
                       /\ pc' = "commit"
                       /\ UNCHANGED exit_status
                  ELSE /\ Raise
                       /\ UNCHANGED table
       ELSE /\ pc' = "commit"
            /\ UNCHANGED <<statements, table, exit_status>>
    /\ UNCHANGED <<filename, ignore_lines, files, db, append, stdin_line, load_i>>
    /\ UNCHANGED <<fs, table0, runs>>
    /\ UNCHANGED inferVars
    /\ UNCHANGED dupVars

\* Lines 147-148; the script then ends with status 0.
Commit ==
    /\ pc = "commit"
    /\ statements' = Append(statements, Stmt("COMMIT"))
    /\ db' = "committed"
    /\ pc' = "done"
    /\ exit_status' = 0
    /\ UNCHANGED <<filename, ignore_lines, files, append, stdin_line, load_i>>
    /\ UNCHANGED <<fs, table, table0, runs>>
    /\ UNCHANGED inferVars
    /\ UNCHANGED dupVars

\* The same command line is run again against the table the last run left.
NextRun ==
    /\ pc \in Exited
    /\ runs < MaxRuns
    /\ runs' = runs + 1
    /\ table0' = table
    /\ statements' = <<>>
    /\ pc' = "start"
    /\ files' = <<>>
    /\ db' = "none"
    /\ append' = FALSE
    /\ stdin_line' = ""
    /\ load_i' = 0
    /\ exit_status' = -1
    /\ ipc' = "idle"
    /\ file_path' = ""
    /\ reader' = 0
    /\ headers' = <<>>
    /\ data_types' = <<>>
    /\ max_lengths' = <<>>
    /\ row_count' = 0
    /\ column_definitions' = <<>>
    /\ column_description' = ""
    /\ UNCHANGED <<filename, ignore_lines, fs, table>>
    /\ UNCHANGED dupVars

(***************************************************************************)
(* duplicateMessageCheck.main: the pass over the duplicates query          *)
(***************************************************************************)
MaxStream == 4
MaxLimit == 2

\* current_length before any row of a block is read (Python None); lengths
\* are CHAR_LENGTH values, never negative.
NoLength == 0 - 1

Md5s == {"m1", "m2"}
GroupIds == {"g1", "g2", "g3"}
ExcerptLength == 5

\* SUBSTRING(message, 1, excerpt_length) and CHAR_LENGTH(TRIM(message)) are
\* the same for every row of one message.
ExcerptOf(md5) == IF md5 = "m1" THEN "hello" ELSE "hi"
MlenOf(md5) == IF md5 = "m1" THEN 40 ELSE 35

\* One row of the duplicates query: msg_md5 and mlen are never NULL, since
\* the query keeps only rows whose message IS NOT NULL.
Row(md5, gid, mid) ==
    [msg_md5 |-> md5, excerpt |-> ExcerptOf(md5), mlen |-> MlenOf(md5),
     message_id |-> mid, group_id |-> gid]

\* Result sets of up to MaxStream rows, in any order.
ResultSets ==
    UNION { { [i \in 1..n |-> Row(f[i][1], f[i][2], i)] :
              f \in [1..n -> Md5s \X GroupIds] } : n \in 0..MaxStream }

NoPartner == [count |-> 0, max_len |-> 0]

\* _update_partners_for_block without the i == j test.
UpdatePartners_WithSelf(gp, groups, length) ==
    IF groups = {} \/ length = NoLength THEN gp
    ELSE LET pairs == groups \X groups
         IN  [p \in (DOMAIN gp) \cup pairs |->
                IF p \in pairs
                THEN LET old == IF p \in DOMAIN gp THEN gp[p] ELSE NoPartner
                     IN  [count |-> old.count + 1,
                          max_len |-> Max(old.max_len, length)]
                ELSE gp[p]]

\* _update_partners_for_block: every ordered pair of different groups of the
\* block is counted once and its max_len raised to the block's length.
UpdatePartners(gp, groups, length) ==
    IF groups = {} \/ length = NoLength THEN gp
    ELSE LET pairs == {p \in groups \X groups : p[1] # p[2]}
         IN  [p \in (DOMAIN gp) \cup pairs |->
                IF p \in pairs
                THEN LET old == IF p \in DOMAIN gp THEN gp[p] ELSE NoPartner
                     IN  [count |-> old.count + 1,
                          max_len |-> IF length > old.max_len THEN length
                                      ELSE old.max_len]
                ELSE gp[p]]

\* The three dots stand for the ellipsis the source appends.
ExcerptDisp(excerpt) ==
    IF Len(excerpt) = excerpt_length THEN excerpt \o "..." ELSE excerpt

Block ==
    [kind |-> "block", length |-> current_length,
     distinct_groups |-> Cardinality(current_groups),
     excerpt |-> ExcerptDisp(current_excerpt), items |-> current_items]

\* flush_block: the values the statistics, the block state and the output have
\* after the call.
FlushBlock ==
    IF current_md5 = None \/ current_items = <<>>
    THEN [total_dupe_groups |-> total_dupe_groups,
          total_rows_listed |-> total_rows_listed,
          distinct_groups_global |-> distinct_groups_global,
          groups_per_duplicate |-> groups_per_duplicate,
          lengths_per_duplicate |-> lengths_per_duplicate,
          group_partners |-> group_partners,
          printed |-> printed,
          current_md5 |-> current_md5,
          current_excerpt |-> current_excerpt,
          current_length |-> current_length,
          current_items |-> current_items,
          current_groups |-> current_groups]
    ELSE [total_dupe_groups |-> total_dupe_groups + 1,
          total_rows_listed |-> total_rows_listed + Len(current_items),
          distinct_groups_global |-> distinct_groups_global \cup current_groups,
          groups_per_duplicate |->
              Append(groups_per_duplicate, Cardinality(current_groups)),
          lengths_per_duplicate |->
              Append(lengths_per_duplicate,
                     IF current_length # NoLength THEN current_length ELSE 0),
          group_partners |->
              UpdatePartners(group_partners, current_groups, current_length),
          printed |->
              IF ~(limit_groups # 0 /\ total_dupe_groups + 1 > limit_groups)
              THEN Append(printed, Block) ELSE printed,
          current_md5 |-> None,
          current_excerpt |-> "",
          current_length |-> NoLength,
          current_items |-> <<>>,
          current_groups |-> {}]

\* Lines 130-138 and 156-160: empty statistics, no block open.
DupeStart ==
    /\ dexit = -1
    /\ fetched = 0
    /\ total_dupe_groups = 0
    /\ total_rows_listed = 0
    /\ distinct_groups_global = {}
    /\ groups_per_duplicate = <<>>
    /\ lengths_per_duplicate = <<>>
    /\ group_partners = <<>>
    /\ current_md5 = None
    /\ current_excerpt = ""
    /\ current_length = NoLength
    /\ current_items = <<>>
    /\ current_groups = {}
    /\ printed = <<>>

\* The duplicate checker is not running.
DupeIdle ==
    /\ dpc = "idle"
    /\ limit_groups = 0
    /\ excerpt_length = ExcerptLength
    /\ result_rows = <<>>
    /\ DupeStart

\* Line 208: the query is sent.
ExecuteDupes ==
    /\ dpc = "query"
    /\ dpc' = "rows"
    /\ UNCHANGED <<dexit, limit_groups, excerpt_length, result_rows, fetched,
                   statVars, blockVars, printed>>
    /\ UNCHANGED <<procVars, envVars, inferVars>>

\* Lines 209-222: one iteration of the loop over the cursor.
FetchRow ==
    /\ dpc = "rows"
    /\ fetched < Len(result_rows)
    /\ LET row == result_rows[fetched + 1]
           new == row.msg_md5 # current_md5
           f   == FlushBlock
       IN  /\ fetched' = fetched + 1
           /\ total_dupe_groups' =
                  IF new THEN f.total_dupe_groups ELSE total_dupe_groups
           /\ total_rows_listed' =
                  IF new THEN f.total_rows_listed ELSE total_rows_listed
           /\ distinct_groups_global' =
                  IF new THEN f.distinct_groups_global
                  ELSE distinct_groups_global
           /\ groups_per_duplicate' =
                  IF new THEN f.groups_per_duplicate ELSE groups_per_duplicate
           /\ lengths_per_duplicate' =
                  IF new THEN f.lengths_per_duplicate
                  ELSE lengths_per_duplicate
           /\ group_partners' =
                  IF new THEN f.group_partners ELSE group_partners
           /\ printed' = IF new THEN f.printed ELSE printed
           /\ current_md5' = IF new THEN row.msg_md5 ELSE current_md5
           /\ current_excerpt' = IF new THEN row.excerpt ELSE current_excerpt
           /\ current_length' = IF new THEN row.mlen ELSE current_length
           /\ current_items' =
                  Append(IF new THEN <<>> ELSE current_items,
                         <<row.message_id, row.group_id>>)
           /\ current_groups' =
                  (IF new THEN {} ELSE current_groups) \cup {row.group_id}
    /\ UNCHANGED <<dpc, dexit, limit_groups, excerpt_length, result_rows>>
    /\ UNCHANGED <<procVars, envVars, inferVars>>

\* Lines 224 and 229-231: the cursor is exhausted, the last block is flushed
\* and the connection closed.
EndOfRows ==
    /\ dpc = "rows"
    /\ fetched = Len(result_rows)
    /\ LET f == FlushBlock
       IN  /\ total_dupe_groups' = f.total_dupe_groups
           /\ total_rows_listed' = f.total_rows_listed
           /\ distinct_groups_global' = f.distinct_groups_global
           /\ groups_per_duplicate' = f.groups_per_duplicate
           /\ lengths_per_duplicate' = f.lengths_per_duplicate
           /\ group_partners' = f.group_partners
           /\ printed' = f.printed
           /\ current_md5' = f.current_md5
           /\ current_excerpt' = f.current_excerpt
           /\ current_length' = f.current_length
           /\ current_items' = f.current_items
           /\ current_groups' = f.current_groups
    /\ dpc' = "report"
    /\ UNCHANGED <<dexit, limit_groups, excerpt_length, result_rows, fetched>>
    /\ UNCHANGED <<procVars, envVars, inferVars>>

\* Lines 226-231: the query or a fetch raises; the program exits with 1.
QueryError ==
    /\ dpc \in {"query", "rows"}
    /\ dpc' = "exited"
    /\ dexit' = 1
    /\ UNCHANGED <<limit_groups, excerpt_length, result_rows, fetched,
                   statVars, blockVars, printed>>
    /\ UNCHANGED <<procVars, envVars, inferVars>>

\* Lines 317-336: the summary; the listings before it only read the
\* statistics.
Summary ==
    /\ dpc = "report"
    /\ printed' = Append(printed,
           [kind |-> "summary",
            groups |-> total_dupe_groups,
            rows |-> total_rows_listed,
            distinct_groups |-> Cardinality(distinct_groups_global),
            not_printed |->
                IF limit_groups # 0 /\ total_dupe_groups > limit_groups
                THEN total_dupe_groups - limit_groups ELSE 0])
    /\ dpc' = "exited"
    /\ dexit' = 0
    /\ UNCHANGED <<limit_groups, excerpt_length, result_rows, fetched,
                   statVars, blockVars>>
    /\ UNCHANGED <<procVars, envVars, inferVars>>

(***************************************************************************)
(* Specifications                                                          *)
(***************************************************************************)
ProcessStart ==
    /\ pc = "start"
    /\ files = <<>>
    /\ db = "none"
    /\ append = FALSE
    /\ stdin_line = ""
    /\ load_i = 0
    /\ exit_status = -1
    /\ statements = <<>>
    /\ ipc = "idle"
    /\ file_path = ""
    /\ reader = 0
    /\ headers = <<>>
    /\ data_types = <<>>
    /\ max_lengths = <<>>
    /\ row_count = 0
    /\ column_definitions = <<>>
    /\ column_description = ""

\* The loader started on one file or on a directory, the table absent or
\* left by an earlier load.
Init ==
    /\ ProcessStart
    /\ \/ /\ filename = "in.csv"
          /\ \E k \in 1..Len(LoaderFiles) : fs = SingleFileFs(LoaderFiles[k])
       \/ /\ filename = "data"
          /\ \E listing \in Listings : fs = DirectoryFs(listing)
    /\ ignore_lines \in 0..MaxIgnore
    /\ table \in {NoTable, OldTable}
    /\ table0 = table
    /\ runs = 1
    /\ DupeIdle

Next ==
    \/ CollectFiles
    \/ Connect
    \/ CheckTable
    \/ DropTable
    \/ CallInfer
    \/ ReadHeaders
    \/ ScanRow
    \/ ResolveTypes
    \/ CreateTable
    \/ DisableKeys
    \/ LoadFile
    \/ EnableKeys
    \/ Commit
    \/ NextRun

Spec == Init /\ [][Next]_vars

\* The loader at line 117, about to infer the schema of a new table from one
\* sample file.
InitInfer ==
    /\ pc = "infer"
    /\ filename = "in.csv"
    /\ \E rows \in SampleFiles : fs = SingleFileFs(rows)
    /\ files = <<filename>>
    /\ ignore_lines = 1
    /\ db = "open"
    /\ append = FALSE
    /\ stdin_line = ""
    /\ load_i = 0
    /\ exit_status = -1
    /\ table = NoTable
    /\ table0 = NoTable
    /\ statements = <<Stmt("SHOW TABLES"), Stmt("DROP TABLE")>>
    /\ runs = 1
    /\ ipc = "idle"
    /\ file_path = ""
    /\ reader = 0
    /\ headers = <<>>
    /\ data_types = <<>>
    /\ max_lengths = <<>>
    /\ row_count = 0
    /\ column_definitions = <<>>
    /\ column_description = ""
    /\ DupeIdle

NextInfer ==
    \/ CallInfer
    \/ ReadHeaders
    \/ ScanRow
    \/ ResolveTypes

SpecInfer == InitInfer /\ [][NextInfer]_vars

\* duplicateMessageCheck at line 207, about to run the duplicates query, with
\* any --limit and any result set; the loader is not running.
InitDupes ==
    /\ ProcessStart
    /\ filename = "in.csv"
    /\ fs = SingleFileFs(<<>>)
    /\ ignore_lines = 0
    /\ table = NoTable
    /\ table0 = NoTable
    /\ runs = 1
    /\ dpc = "query"
    /\ limit_groups \in 0..MaxLimit
    /\ excerpt_length = ExcerptLength
    /\ result_rows \in ResultSets
    /\ DupeStart

NextDupes ==
    \/ ExecuteDupes
    \/ FetchRow
    \/ EndOfRows
    \/ QueryError
    \/ Summary

SpecDupes == InitDupes /\ [][NextDupes]_vars

(***************************************************************************)
(* Properties of infer_column_types, checked under SpecInfer               *)
(***************************************************************************)
Textual == {"VARCHAR", "TEXT"}
Numeric == {"TINYINT", "INT", "DOUBLE"}
Dates   == {"DATE", "DATETIME"}

SameColumns == Len(data_types') = Len(data_types)

\* The value the next ScanRow step reads for column i ("" when the row is
\* too short to have one).
NextValue(i) ==
    IF ipc = "scan" /\ reader < Len(csvfile) /\ i <= Len(csvfile[reader + 1])
    THEN csvfile[reader + 1][i]
    ELSE ""

\* C1: once a column's label is textual (VARCHAR or TEXT), no later value
\* changes it to a numeric label (TINYINT, INT, DOUBLE) or a date label
\* (DATE, DATETIME).
C1_TextualNeverReverts ==
    [][SameColumns =>
         \A i \in 1..Len(data_types) :
            data_types[i] \in Textual => data_types'[i] \notin (Numeric \cup Dates)]_vars

\* C2: once a column's label is DATE or DATETIME, a later value that is
\* purely numeric (integer or floating-point text) does not overwrite it
\* with a numeric label.
C2_DateSurvivesNumbers ==
    [][SameColumns =>
         \A i \in 1..Len(data_types) :
            (/\ data_types[i] \in Dates
             /\ (IsInt(NextValue(i)) \/ IsFloat(NextValue(i))))
            => data_types'[i] \notin Numeric]_vars

\* C3: no value in data row 1001 or later influences a column's label or
\* max length: a step that reads past the first SAMPLE_ROWS data rows leaves
\* both as they were.  (reader counts the header line too.)
C3_SampleWindow ==
    [][reader >= SAMPLE_ROWS + 1 =>
         /\ data_types' = data_types
         /\ max_lengths' = max_lengths]_vars

\* C4 as claimed: the scenario file yields id -> TINYINT with an index
\* directive, name -> VARCHAR(5), score -> DOUBLE, joined -> DATETIME.
C4_ScenarioIndexed ==
    (ipc = "returned" /\ csvfile = ScenarioFile) =>
        column_definitions =
            << BQ \o "id" \o BQ \o " TINYINT INDEX",
               BQ \o "name" \o BQ \o " VARCHAR(5)",
               BQ \o "score" \o BQ \o " DOUBLE",
               BQ \o "joined" \o BQ \o " DATETIME" >>

\* C4 as amended: the scenario file yields id -> TINYINT with no index
\* directive (the header id does not end in _id), name -> VARCHAR(5),
\* score -> DOUBLE, joined -> DATETIME, joined into one clause.
C4_Scenario ==
    (ipc = "returned" /\ csvfile = ScenarioFile) =>
        /\ column_definitions =
              << BQ \o "id" \o BQ \o " TINYINT",
                 BQ \o "name" \o BQ \o " VARCHAR(5)",
                 BQ \o "score" \o BQ \o " DOUBLE",
                 BQ \o "joined" \o BQ \o " DATETIME" >>
        /\ column_description =
              "'id' TINYINT, 'name' VARCHAR(5), 'score' DOUBLE, 'joined' DATETIME"

C4_Witness ==
    /\ ipc = "returned"
    /\ csvfile = ScenarioFile
    /\ data_types = <<"TINYINT", "VARCHAR", "DOUBLE", "DATETIME">>

\* C5: once a column's label is TEXT it stays TEXT for the rest of the
\* sample, whatever values follow.
C5_TextStaysText ==
    [][SameColumns =>
         \A i \in 1..Len(data_types) :
            data_types[i] = "TEXT" => data_types'[i] = "TEXT"]_vars

\* C6: the emitted definitions are one per header, in header order, each
\* starting with the quoted header name, and a definition ends with the
\* index directive exactly when its header ends with _id; the returned
\* clause is their comma-separated join.
C6_IndexIffIdSuffix ==
    ipc = "returned" =>
        /\ Len(column_definitions) = Len(headers)
        /\ \A i \in 1..Len(headers) :
              /\ StartsWith(column_definitions[i], BQ \o headers[i] \o BQ \o " ")
              /\ EndsWith(column_definitions[i], " INDEX") <=> EndsWith(headers[i], "_id")
        /\ column_description = Join(column_definitions)

C6_Witness ==
    /\ ipc = "returned"
    /\ headers = <<"x_id", "id">>
    /\ data_types = <<"VARCHAR", None>>
    /\ column_definitions = <<"'x_id' VARCHAR(1) INDEX", "'id' VARCHAR(255)">>

(***************************************************************************)
(* Properties of the loader, checked under Spec                            *)
(***************************************************************************)
\* This run has been through the prompt of lines 47-54.
Prompted == table0.exists /\ statements # <<>>

\* The line typed at the prompt, without its newline.
TypedAnswer ==
    IF EndsWith(stdin_line, "\n")
    THEN SubSeq(stdin_line, 1, Len(stdin_line) - 1)
    ELSE stdin_line

\* Its first character; "" at end of input.
FirstChar == IF Len(stdin_line) = 0 THEN "" ELSE Ch(stdin_line, 1)

Issued(op) == \E i \in 1..Len(statements) : statements[i].op = op

\* The run ended with a non-zero status having issued nothing but SHOW
\* TABLES, and the table is as the run found it.
Refused ==
    /\ pc \in {"aborted", "raised"}
    /\ exit_status # 0
    /\ statements = <<Stmt("SHOW TABLES")>>
    /\ table = table0

\* C7 as claimed: when the table exists, every answer other than y, Y, a or
\* A makes the run exit non-zero before any DROP, CREATE, ALTER or LOAD.
C7_OtherAnswersRefused ==
    (Prompted /\ TypedAnswer \notin {"y", "Y", "a", "A"}) => Refused

\* C7 as amended: when the table exists, every answer whose first character
\* is not y, Y, a or A (n and the empty line among them) makes the run exit
\* non-zero before any DROP, CREATE, ALTER or LOAD, the table unchanged.
C7_OtherFirstCharRefused ==
    (Prompted /\ FirstChar \notin {"y", "Y", "a", "A"}) => Refused

C7_Witness ==
    /\ pc = "aborted"
    /\ table0 = OldTable
    /\ stdin_line = "\n"
    /\ exit_status = 1

IsPrefix(a, b) == Len(a) <= Len(b) /\ SubSeq(b, 1, Len(a)) = a

\* C8: once the user has selected append on an existing table, the run
\* issues neither DROP TABLE nor CREATE TABLE and never runs type inference;
\* the table keeps the column definitions it had and its rows are only
\* added to.
C8_AppendKeepsSchema ==
    (Prompted /\ FirstChar \in {"a", "A"}) =>
        /\ ~Issued("DROP TABLE")
        /\ ~Issued("CREATE TABLE")
        /\ ipc = "idle"
        /\ table.exists
        /\ table.columns = table0.columns
        /\ IsPrefix(table0.rows, table.rows)

\* A second consecutive append run has completed: the first one added rows
\* to the old table and left its columns.
C8_Witness ==
    /\ pc = "done"
    /\ runs = 2
    /\ append
    /\ table0.columns = OldTable.columns
    /\ Len(table0.rows) > Len(OldTable.rows)
    /\ Len(table.rows) > Len(table0.rows)
    /\ table.columns = OldTable.columns

\* C9: on every exit path after the connection was acquired, it has been
\* released (committed or closed).
C9_ConnectionReleased ==
    (pc \in Exited /\ db # "none") => db \in {"committed", "closed"}

IsLoad(stmt) == stmt.op = "LOAD"

Loads == SelectSeq(statements, IsLoad)

\* The regular files directly inside the input directory.
RegularFiles ==
    {PathJoin(filename, fs[filename].listing[i]) : i \in 1..Len(fs[filename].listing)}
        \cap {p \in DOMAIN fs : fs[p].kind = "file"}

\* C10: for a directory, no file is ever loaded twice, and a run that
\* completes has issued exactly one load per regular file directly inside
\* the directory, each skipping IGNORE_LINES lines, all into the target
\* table, with the commit after the last of them.
C10_EveryFileOnce ==
    IsDir(filename) =>
        /\ \A i, j \in 1..Len(Loads) : Loads[i].file = Loads[j].file => i = j
        /\ pc = "done" =>
              /\ {Loads[i].file : i \in 1..Len(Loads)} = RegularFiles
              /\ Len(Loads) = Cardinality(RegularFiles)
              /\ \A i \in 1..Len(Loads) : Loads[i].ignore = ignore_lines
              /\ \A i \in 1..Len(Loads) :
                    \E r \in 1..Len(table.rows) :
                       table.rows[r] = [file |-> Loads[i].file, ignore |-> ignore_lines]
              /\ statements[Len(statements)].op = "COMMIT"
              /\ \A i \in 1..(Len(statements) - 1) : statements[i].op # "COMMIT"

\* Three files and IGNORE_LINES = 1: three loads, each skipping one line.
C10_Witness ==
    /\ pc = "done"
    /\ IsDir(filename)
    /\ Cardinality(RegularFiles) = 3
    /\ ignore_lines = 1
    /\ Len(Loads) = 3
    /\ \A i \in 1..3 : Loads[i].ignore = 1
    /\ "sub" \in {fs[filename].listing[i] : i \in 1..Len(fs[filename].listing)}

\* Files this run has loaded successfully: the rows the table gained since
\* it was created (overwrite) or found (append).
LoadedOk == Len(table.rows) - (IF append THEN Len(table0.rows) ELSE 0)

\* The last statement issued was a LOAD and it raised.
LoadFailed ==
    /\ pc = "raised"
    /\ statements # <<>>
    /\ statements[Len(statements)].op = "LOAD"

\* C11: ENABLE KEYS and the commit are issued only once every file of the
\* candidate set has loaded successfully; when the load of file k fails, no
\* later file is loaded, neither ENABLE KEYS nor the commit is issued, and
\* the run has ended with the table's indexes still disabled.
C11_EnableOnlyAfterAllLoads ==
    /\ (Issued("ENABLE KEYS") \/ Issued("COMMIT")) =>
          /\ Len(Loads) = Len(files)
          /\ LoadedOk = Len(files)
          /\ \A i \in 1..Len(files) : Loads[i].file = files[i]
    /\ LoadFailed =>
          /\ Len(Loads) = load_i + 1
          /\ LoadedOk = load_i
          /\ \A i \in 1..Len(Loads) : Loads[i].file = files[i]
          /\ ~Issued("ENABLE KEYS")
          /\ ~Issued("COMMIT")
          /\ db = "open"
          /\ exit_status = 1
          /\ table.exists /\ ~table.keys

\* The second of three files failed to load.
C11_Witness ==
    /\ LoadFailed
    /\ Len(files) = 3
    /\ load_i = 1
    /\ ~table.keys
    /\ ~Issued("ENABLE KEYS")

Abs(n) == IF n < 0 THEN 0 - n ELSE n

\* C12: for a value that parses as an integer, a column whose label is not
\* DOUBLE, VARCHAR, TEXT, DATETIME or DATE gets TINYINT when the integer's
\* absolute value is below 10 and INT otherwise; a column with one of those
\* five labels keeps it.
C12_IntegerLabelByMagnitude ==
    [][(SameColumns /\ ipc' # "raised") =>
         \A i \in 1..Len(data_types) :
            IsInt(NextValue(i)) =>
               data_types'[i] =
                  IF data_types[i] \notin {"DOUBLE", "VARCHAR", "TEXT", "DATETIME", "DATE"}
                  THEN (IF Abs(IntVal(NextValue(i))) < 10 THEN "TINYINT" ELSE "INT")
                  ELSE data_types[i]]_vars

\* The value data row k (line k + 1 of the file) holds for column i.
ValueAt(k, i) ==
    IF i <= Len(csvfile[k + 1]) THEN csvfile[k + 1][i] ELSE ""

\* The last non-empty value of column i among data rows 1..k, "" if none.
RECURSIVE LastNonEmpty(_, _)
LastNonEmpty(k, i) ==
    IF k = 0 THEN ""
    ELSE IF ValueAt(k, i) # "" THEN ValueAt(k, i)
    ELSE LastNonEmpty(k - 1, i)

\* Every non-empty value column i has shown in the rows scanned so far
\* parses as an integer.
AllIntegers(i) ==
    \A k \in 1..(reader - 1) : ValueAt(k, i) = "" \/ IsInt(ValueAt(k, i))

SmallOrNot(value) == IF IntVal(value) < 10 THEN "TINYINT" ELSE "INT"

FileOf(a, b) == << <<"name">>, <<a>>, <<b>> >>

\* C13: for a column whose non-empty values so far are all integers, the
\* label is the one its last non-empty value gives (TINYINT below 10, else
\* INT) whatever came before, so INT goes back to TINYINT: 100 then 5 ends
\* as TINYINT, 5 then 100 as INT.
C13_LastIntegerDecides ==
    /\ ipc \in {"scan", "break", "returned"} =>
          \A i \in 1..Len(data_types) :
             AllIntegers(i) =>
                data_types[i] =
                   IF LastNonEmpty(reader - 1, i) = "" THEN None
                   ELSE SmallOrNot(LastNonEmpty(reader - 1, i))
    /\ (ipc = "returned" /\ csvfile = FileOf("100", "5")) =>
          column_definitions = <<"'name' TINYINT">>
    /\ (ipc = "returned" /\ csvfile = FileOf("5", "100")) =>
          column_definitions = <<"'name' INT">>

\* 100 then 5: the label was INT after the first row and is TINYINT now.
C13_Witness ==
    /\ ipc = "scan"
    /\ csvfile = FileOf("100", "5")
    /\ reader = 3
    /\ data_types = <<"TINYINT">>

\* The statements of a run that overwrites and gets to the end, in order.
OverwriteOrder ==
    <<Stmt("SHOW TABLES"), Stmt("DROP TABLE"), Stmt("CREATE TABLE"),
      Stmt("DISABLE KEYS")>>
    \o [i \in 1..Len(files) |-> LoadStmt(files[i], ignore_lines)]
    \o <<Stmt("ENABLE KEYS"), Stmt("COMMIT")>>

\* C14: a run that is not appending issues DROP TABLE, CREATE TABLE,
\* DISABLE KEYS, one LOAD per file, ENABLE KEYS and the commit in that order,
\* the schema being inferred from the first candidate file between the DROP
\* and the CREATE; a LOAD is issued only once CREATE TABLE has completed; and
\* a failed inference ends the run with the table dropped and none created.
C14_OverwriteOrder ==
    /\ ~append => IsPrefix(statements, OverwriteOrder)
    /\ (~append /\ Issued("CREATE TABLE")) =>
          /\ ipc = "returned"
          /\ file_path = files[1]
    /\ (~append /\ Issued("LOAD")) =>
          /\ table.exists
          /\ table.columns = column_description
    /\ ipc \in {"open", "scan", "break"} =>
          /\ statements = <<Stmt("SHOW TABLES"), Stmt("DROP TABLE")>>
          /\ ~table.exists
    /\ ipc = "raised" =>
          /\ pc = "raised"
          /\ exit_status = 1
          /\ statements = <<Stmt("SHOW TABLES"), Stmt("DROP TABLE")>>
          /\ table = NoTable

\* A data row longer than the header stopped the inference; the table the
\* run found is gone.
C14_Witness ==
    /\ ipc = "raised"
    /\ reader = 3
    /\ stdin_line = "y\n"
    /\ table0 = OldTable
    /\ ~table.exists

(***************************************************************************)
(* Properties of duplicateMessageCheck.main, checked under SpecDupes       *)
(***************************************************************************)
\* The rows that open a maximal run of consecutive rows with one msg_md5.
RunStarts ==
    {i \in 1..Len(result_rows) :
        i = 1 \/ result_rows[i].msg_md5 # result_rows[i - 1].msg_md5}

\* The rows of the run that opens at row i.
RunRows(i) ==
    {j \in i..Len(result_rows) :
        \A k \in i..j : result_rows[k].msg_md5 = result_rows[i].msg_md5}

RunGroups(i) == {result_rows[j].group_id : j \in RunRows(i)}

\* The opening row of the k-th run.
KthStart(k) ==
    CHOOSE i \in RunStarts : Cardinality({j \in RunStarts : j <= i}) = k

StreamEnded == dpc = "report" \/ (dpc = "exited" /\ dexit = 0)

PrintedBlocks == SelectSeq(printed, LAMBDA o : o.kind = "block")

\* [a][b] and [b][a] exist together with the same count and max_len, and
\* there is no [a][a].
PartnersSymmetric ==
    \A p \in DOMAIN group_partners :
        /\ p[1] # p[2]
        /\ <<p[2], p[1]>> \in DOMAIN group_partners
        /\ group_partners[<<p[2], p[1]>>] = group_partners[p]

\* C15: every maximal run of consecutive rows with one msg_md5 is flushed
\* exactly once, the last run included.  Once the stream has ended,
\* total_dupe_groups is the number of runs and the per-block statistics list
\* the runs in order, total_rows_listed is the number of rows consumed,
\* group_partners is symmetric, has no [a][a] entry and counts for each pair
\* the runs that hold both groups, and with --limit L > 0 exactly the first
\* min(L, runs) blocks are printed (all of them without a limit) while the
\* statistics cover every block.  Before the end, the rows consumed are those
\* listed plus those of the open block, and never more than L blocks are
\* printed.
C15_RunsFlushedOnce ==
    /\ PartnersSymmetric
    /\ limit_groups > 0 => Len(PrintedBlocks) <= limit_groups
    /\ dpc = "rows" => total_rows_listed + Len(current_items) = fetched
    /\ StreamEnded =>
        /\ fetched = Len(result_rows)
        /\ total_dupe_groups = Cardinality(RunStarts)
        /\ total_rows_listed = Len(result_rows)
        /\ Len(groups_per_duplicate) = total_dupe_groups
        /\ Len(lengths_per_duplicate) = total_dupe_groups
        /\ \A k \in 1..total_dupe_groups :
            /\ groups_per_duplicate[k] = Cardinality(RunGroups(KthStart(k)))
            /\ lengths_per_duplicate[k] = result_rows[KthStart(k)].mlen
        /\ distinct_groups_global =
               {result_rows[i].group_id : i \in 1..Len(result_rows)}
        /\ \A a \in GroupIds, b \in GroupIds :
            LET shared == {i \in RunStarts : {a, b} \subseteq RunGroups(i)}
            IN  IF a # b /\ shared # {}
                THEN /\ <<a, b>> \in DOMAIN group_partners
                     /\ group_partners[<<a, b>>].count = Cardinality(shared)
                     /\ \E i \in shared :
                          /\ group_partners[<<a, b>>].max_len
                                 = result_rows[i].mlen
                          /\ \A j \in shared :
                                 result_rows[j].mlen <= result_rows[i].mlen
                ELSE <<a, b>> \notin DOMAIN group_partners
        /\ Len(PrintedBlocks) =
               IF limit_groups > 0 /\ total_dupe_groups > limit_groups
               THEN limit_groups ELSE total_dupe_groups
        /\ \A k \in 1..Len(PrintedBlocks) :
               PrintedBlocks[k].items =
                   [n \in 1..Cardinality(RunRows(KthStart(k))) |->
                       <<result_rows[KthStart(k) + n - 1].message_id,
                         result_rows[KthStart(k) + n - 1].group_id>>]

\* Three runs, the first and the last of the same message, under --limit 1:
\* one block printed, three counted, and a pair of groups sharing a run.
C15_Witness ==
    /\ dpc = "report"
    /\ limit_groups = 1
    /\ Len(result_rows) = 4
    /\ result_rows[1].msg_md5 = result_rows[4].msg_md5
    /\ total_dupe_groups = 3
    /\ total_rows_listed = 4
    /\ Len(PrintedBlocks) = 1
    /\ \E p \in DOMAIN group_partners : group_partners[p].count = 1

====
